---- MODULE Spec2Model ----
(***************************************************************************)
(* State-machine model of the WildlifeTag automator: the IMU, audio and    *)
(* GPS decoders (src/src/parsers), the artifact writer (src/src/core/      *)
(* finisher.py) and the coordinator loop of src/src/main.py.               *)
(*                                                                         *)
(* Instants are pairs [day, ms]: days since 2000-01-01 and milliseconds    *)
(* of the day.  IMU float32 values are modelled as small integers.         *)
(***************************************************************************)
EXTENDS Integers, Sequences, FiniteSets, TLC

(***************************************************************************)
(* Bounds of the model.                                                    *)
(***************************************************************************)
MaxRecords == 2
NumSessions == 2
MaxFiles == 2
MaxTotalFiles == 2
\* Longest run of sample bytes before, between and after the footers of a
\* payload handed to the audio scan on its own.
MaxGap == 4
\* Most payload words of a file handed to the GPS decoder on its own, and
\* the number of times the decoder is run on it.
MaxWords == 2
MaxRuns == 2
\* Calls of FileFinisher.generate_metadata_file on one output root.
MaxCalls == 2

(***************************************************************************)
(* Program constants.                                                      *)
(***************************************************************************)
HEADER_SIZE == 150
RECORD_SIZE == 42
DEFAULT_SAMPLE_RATE == 50
BCD_END == 139 + 1

None == [kind |-> "None"]

(***************************************************************************)
(* Calendar: datetime(year, month, day, h, m, s) and timedelta addition.   *)
(***************************************************************************)
IsLeap(y) == (y % 4 = 0) /\ ((y % 100 # 0) \/ (y % 400 = 0))

DaysInMonth(y, mo) ==
    IF mo = 2 THEN (IF IsLeap(y) THEN 29 ELSE 28)
    ELSE IF mo \in {4, 6, 9, 11} THEN 30 ELSE 31

RECURSIVE DaysBeforeMonth(_, _)
DaysBeforeMonth(y, mo) ==
    IF mo <= 1 THEN 0 ELSE DaysBeforeMonth(y, mo - 1) + DaysInMonth(y, mo - 1)

LeapsBefore(y) == ((y - 1) \div 4) - ((y - 1) \div 100) + ((y - 1) \div 400)

DaysBeforeYear(y) == (y - 2000) * 365 + (LeapsBefore(y) - LeapsBefore(2000))

\* datetime(...) raises ValueError unless every field is in range.
DatetimeValid(y, mo, d, h, m, s) ==
    /\ y \in 1..9999
    /\ mo \in 1..12
    /\ d >= 1 /\ d <= DaysInMonth(y, mo)
    /\ h \in 0..23
    /\ m \in 0..59
    /\ s \in 0..59

Datetime(y, mo, d, h, m, s) ==
    [day |-> DaysBeforeYear(y) + DaysBeforeMonth(y, mo) + (d - 1),
     ms  |-> ((h * 60 + m) * 60 + s) * 1000]

MS_PER_DAY == 24 * 60 * 60 * 1000

AddMs(t, delta) ==
    [day |-> t.day + ((t.ms + delta) \div MS_PER_DAY),
     ms  |-> (t.ms + delta) % MS_PER_DAY]

TimeLess(a, b) == (a.day < b.day) \/ (a.day = b.day /\ a.ms < b.ms)

TimeLeq(a, b) == (a = b) \/ TimeLess(a, b)

(***************************************************************************)
(* IMU decoder (src/src/parsers/imu_parser.py).                            *)
(*                                                                         *)
(* An IMU file is [exists, hdr, device_id, sensor, sample_rate, bcd,       *)
(* mtime, recs, tail, txt_fails]: hdr is the number of header bytes        *)
(* present (150 in a complete file), recs the complete 42-byte records     *)
(* after the header (each a sequence of 9 floats), tail the number of      *)
(* bytes of a trailing partial record.                                     *)
(***************************************************************************)
ImuFileSize(f) ==
    IF f.hdr < HEADER_SIZE THEN f.hdr
    ELSE HEADER_SIZE + RECORD_SIZE * Len(f.recs) + f.tail

_bcd_to_int(byte_val) == (byte_val \div 16) * 10 + (byte_val % 16)

\* Header start instant: BCD bytes 132..134 and 137..139, file time on ValueError.
ImuStartDt(f) ==
    LET h     == _bcd_to_int(f.bcd.h)
        m     == _bcd_to_int(f.bcd.m)
        s     == _bcd_to_int(f.bcd.s)
        month == _bcd_to_int(f.bcd.mon)
        day   == _bcd_to_int(f.bcd.day)
        year  == 2000 + _bcd_to_int(f.bcd.yr)
    IN  IF DatetimeValid(year, month, day, h, m, s)
        THEN Datetime(year, month, day, h, m, s)
        ELSE f.mtime

\* Faulty variant: the header's sample rate is used as read.
ImuMetaNoDefault(f) ==
    [DeviceID   |-> f.device_id,
     Sensor     |-> f.sensor,
     SampleRate |-> f.sample_rate,
     Bitmask    |-> 0,
     Config0    |-> 0,
     Start_Time |-> ImuStartDt(f)]

ImuMeta(f) ==
    [DeviceID   |-> f.device_id,
     Sensor     |-> f.sensor,
     SampleRate |-> IF f.sample_rate > 0 THEN f.sample_rate ELSE DEFAULT_SAMPLE_RATE,
     Bitmask    |-> 0,
     Config0    |-> 0,
     Start_Time |-> ImuStartDt(f)]

\* Faulty variant: the read starts one record after the header.
ImuNumSamplesLate(f) ==
    IF ImuFileSize(f) < HEADER_SIZE + RECORD_SIZE THEN 0
    ELSE (ImuFileSize(f) - HEADER_SIZE - RECORD_SIZE) \div RECORD_SIZE

\* np.fromfile after seek(HEADER_SIZE): the number of complete items left.
ImuNumSamples(f) ==
    IF ImuFileSize(f) < HEADER_SIZE THEN 0
    ELSE (ImuFileSize(f) - HEADER_SIZE) \div RECORD_SIZE

\* The structured dtype: gyro at bytes 0-11, acc at 12-23, mag at 24-35.
DtField(rec, name) ==
    CASE name = "gyro" -> SubSeq(rec, 1, 3)
      [] name = "acc"  -> SubSeq(rec, 4, 6)
      [] name = "mag"  -> SubSeq(rec, 7, 9)

IMU_COLUMNS ==
    << "Time",
       "Acc X [mg]", "Acc Y [mg]", "Acc Z [mg]",
       "Gyro X [dps]", "Gyro Y [dps]", "Gyro Z [dps]",
       "Mag X [mGauss]", "Mag Y [mGauss]", "Mag Z [mGauss]",
       "Temperature [C]", "Bar Pressure [hPa]" >>

\* period = 1.0 / meta['SampleRate'], in milliseconds.
ImuPeriodMs(meta) == 1000 \div meta.SampleRate

ImuRow(f, meta, i) ==
    LET rec  == f.recs[i]
        acc  == DtField(rec, "acc")
        gyro == DtField(rec, "gyro")
        mag  == DtField(rec, "mag")
        time == AddMs(meta.Start_Time, (i - 1) * ImuPeriodMs(meta))
    IN  [c \in {IMU_COLUMNS[k] : k \in 1..Len(IMU_COLUMNS)} |->
            CASE c = "Time"               -> time
              [] c = "Acc X [mg]"         -> acc[1]
              [] c = "Acc Y [mg]"         -> acc[2]
              [] c = "Acc Z [mg]"         -> acc[3]
              [] c = "Gyro X [dps]"       -> gyro[1]
              [] c = "Gyro Y [dps]"       -> gyro[2]
              [] c = "Gyro Z [dps]"       -> gyro[3]
              [] c = "Mag X [mGauss]"     -> mag[1]
              [] c = "Mag Y [mGauss]"     -> mag[2]
              [] c = "Mag Z [mGauss]"     -> mag[3]
              [] c = "Temperature [C]"    -> 0
              [] c = "Bar Pressure [hPa]" -> 0]

\* The sidecar written next to the INPUT file (imu_parser.generate_metadata_file).
ImuWritesInputTxt(f) == f.exists /\ f.hdr >= BCD_END /\ ~f.txt_fails

parse_imu_file(f) ==
    IF ~f.exists THEN None
    ELSE IF f.hdr < BCD_END THEN None   \* struct.error / IndexError, caught
    ELSE LET meta        == ImuMeta(f)
             num_samples == ImuNumSamples(f)
         IN  IF num_samples = 0 THEN None
             ELSE IF meta.SampleRate = 0 THEN None   \* ZeroDivisionError, caught
             ELSE [kind    |-> "DataFrame",
                   columns |-> IMU_COLUMNS,
                   rows    |-> [i \in 1..num_samples |-> ImuRow(f, meta, i)]]

(***************************************************************************)
(* Shared header decoder (src/src/core/binary_utils.py).                   *)
(***************************************************************************)
bcd_to_int(byte_val) == (byte_val \div 16) * 10 + (byte_val % 16)

\* Faulty variant: the start instant is always the file's modification time.
read_vesper_header_mtime(f, header_size) ==
    IF ~f.exists THEN None
    ELSE IF (IF f.hdr < header_size THEN f.hdr ELSE header_size) < BCD_END
         THEN [kind |-> "raise"]
    ELSE [kind |-> "meta", DeviceID |-> f.device_id, Sensor |-> f.sensor,
          SampleRate |-> f.sample_rate, Bitmask |-> 0, Config0 |-> 0,
          Config1 |-> 0, Config2 |-> 0, Config3 |-> 0, Start_Time |-> f.mtime]

\* read_vesper_header(filepath, header_size): None for a missing file, the
\* header dictionary otherwise; "raise" stands for struct.error / IndexError
\* on a header shorter than the fields read (bytes up to offset 139).
read_vesper_header(f, header_size) ==
    IF ~f.exists THEN None
    ELSE IF (IF f.hdr < header_size THEN f.hdr ELSE header_size) < BCD_END
         THEN [kind |-> "raise"]
    ELSE LET h     == bcd_to_int(f.bcd.h)
             m     == bcd_to_int(f.bcd.m)
             s     == bcd_to_int(f.bcd.s)
             month == bcd_to_int(f.bcd.mon)
             day   == bcd_to_int(f.bcd.day)
             year  == 2000 + bcd_to_int(f.bcd.yr)
         IN  [kind       |-> "meta",
              DeviceID   |-> f.device_id,
              Sensor     |-> f.sensor,
              SampleRate |-> f.sample_rate,
              Bitmask    |-> 0,
              Config0    |-> 0,
              Config1    |-> 0,
              Config2    |-> 0,
              Config3    |-> 0,
              Start_Time |-> IF DatetimeValid(year, month, day, h, m, s)
                             THEN Datetime(year, month, day, h, m, s)
                             ELSE f.mtime]

(***************************************************************************)
(* Audio decoder (src/src/parsers/audio_parser.py).                        *)
(*                                                                         *)
(* Bytes are integers 0..255; positions are 0-based as in the source.      *)
(* An audio file is [exists, hdr, device_id, sensor, sample_rate, bcd,     *)
(* mtime, body, wav_fails]: hdr is the number of bytes present before      *)
(* offset AUD_HEADER_SIZE, body the bytes from that offset to end of file. *)
(***************************************************************************)
AUD_HEADER_SIZE == 142
FOOTER_MAGIC == << 239, 239, 205, 171 >>
FOOTER_LEN == 14
MARGIN_LEFT == 2
MARGIN_RIGHT == 2

Min(a, b) == IF a < b THEN a ELSE b
Max(a, b) == IF a > b THEN a ELSE b

\* Python slice raw[a:b] for 0 <= a.
Slice(raw, a, b) == SubSeq(raw, a + 1, Min(b, Len(raw)))

MatchAt(raw, pat, pos) ==
    /\ pos + Len(pat) <= Len(raw)
    /\ \A j \in 1..Len(pat) : raw[pos + j] = pat[j]

\* bytes.find(pat, start): lowest position >= start of an occurrence, else -1.
RECURSIVE Find(_, _, _)
Find(raw, pat, start) ==
    IF start + Len(pat) > Len(raw) THEN -1
    ELSE IF MatchAt(raw, pat, start) THEN start
    ELSE Find(raw, pat, start + 1)

\* f"{b:02d}": the decimal digits of b, zero-padded to width 2.
RECURSIVE Digits(_)
Digits(n) == IF n < 10 THEN << n >> ELSE Append(Digits(n \div 10), n % 10)

Fmt02d(b) == IF b < 10 THEN << 0, b >> ELSE Digits(b)

\* ts_str = f"20{yy:02d}-{mon:02d}-{day:02d} {hh:02d}:{mm:02d}:{ss:02d}"
FooterTsStr(ts_chunk) ==
    [year |-> << 2, 0 >> \o Fmt02d(ts_chunk[8]),
     mon  |-> Fmt02d(ts_chunk[6]),
     day  |-> Fmt02d(ts_chunk[7]),
     hh   |-> Fmt02d(ts_chunk[1]),
     mm   |-> Fmt02d(ts_chunk[2]),
     ss   |-> Fmt02d(ts_chunk[3])]

ScanInit ==
    [cursor |-> 0, clean |-> << >>, timestamps |-> << >>, found |-> << >>,
     ranges |-> << >>, done |-> FALSE]

\* Faulty variant: the cursor skips the magic only, not the whole footer.
ScanStepSkipsMagicOnly(raw, st) ==
    LET next_footer == Find(raw, FOOTER_MAGIC, st.cursor)
        ts_chunk    == Slice(raw, next_footer + 4, next_footer + 12)
        cut_start   == Max(st.cursor, next_footer - MARGIN_LEFT)
    IN  IF next_footer = -1
        THEN [st EXCEPT !.clean = st.clean \o Slice(raw, st.cursor, Len(raw)),
                        !.ranges = Append(st.ranges, << st.cursor, Len(raw) >>),
                        !.done = TRUE]
        ELSE [st EXCEPT
                !.timestamps = IF Len(ts_chunk) = 8
                               THEN Append(st.timestamps, FooterTsStr(ts_chunk))
                               ELSE st.timestamps,
                !.found  = Append(st.found, next_footer),
                !.clean  = st.clean \o Slice(raw, st.cursor, cut_start),
                !.ranges = Append(st.ranges, << st.cursor, cut_start >>),
                !.cursor = next_footer + Len(FOOTER_MAGIC)]

\* The loop iteration without the right margin in the cursor's advance.
ScanStepNoRightMargin(raw, st) ==
    LET next_footer == Find(raw, FOOTER_MAGIC, st.cursor)
        ts_chunk    == Slice(raw, next_footer + 4, next_footer + 12)
        cut_start   == Max(st.cursor, next_footer - MARGIN_LEFT)
    IN  IF next_footer = -1
        THEN [st EXCEPT !.clean = st.clean \o Slice(raw, st.cursor, Len(raw)),
                        !.ranges = Append(st.ranges, << st.cursor, Len(raw) >>),
                        !.done = TRUE]
        ELSE [st EXCEPT
                !.timestamps = IF Len(ts_chunk) = 8
                               THEN Append(st.timestamps, FooterTsStr(ts_chunk))
                               ELSE st.timestamps,
                !.found  = Append(st.found, next_footer),
                !.clean  = st.clean \o Slice(raw, st.cursor, cut_start),
                !.ranges = Append(st.ranges, << st.cursor, cut_start >>),
                !.cursor = next_footer + FOOTER_LEN]

\* One iteration of `while cursor < file_len` (lines 127-159); `found` records
\* the positions returned by find and `ranges` the slices raw[a:b] handed to
\* clean_byte_stream.extend, for the properties only.
ScanStep(raw, st) ==
    LET next_footer == Find(raw, FOOTER_MAGIC, st.cursor)
        ts_chunk    == Slice(raw, next_footer + 4, next_footer + 12)
        cut_start   == Max(st.cursor, next_footer - MARGIN_LEFT)
    IN  IF next_footer = -1
        THEN [st EXCEPT !.clean = st.clean \o Slice(raw, st.cursor, Len(raw)),
                        !.ranges = Append(st.ranges, << st.cursor, Len(raw) >>),
                        !.done = TRUE]
        ELSE [st EXCEPT
                !.timestamps = IF Len(ts_chunk) = 8
                               THEN Append(st.timestamps, FooterTsStr(ts_chunk))
                               ELSE st.timestamps,
                !.found  = Append(st.found, next_footer),
                !.clean  = st.clean \o Slice(raw, st.cursor, cut_start),
                !.ranges = Append(st.ranges, << st.cursor, cut_start >>),
                !.cursor = next_footer + FOOTER_LEN + MARGIN_RIGHT]

ScanRunning(raw, st) == ~st.done /\ st.cursor < Len(raw)

RECURSIVE ScanRun(_, _)
ScanRun(raw, st) ==
    IF ScanRunning(raw, st) THEN ScanRun(raw, ScanStep(raw, st)) ELSE st

\* Faulty variant: a trailing odd byte is dropped instead of raising.
FromBufferOkAnyLength(clean) == TRUE

\* np.frombuffer(clean_byte_stream, dtype='<i2') raises ValueError on an odd
\* length; the samples are pairs of bytes (low, high).
FromBufferOk(clean) == Len(clean) % 2 = 0

FromBuffer(clean) ==
    [kind    |-> "ndarray",
     samples |-> [i \in 1..(Len(clean) \div 2) |->
                    << clean[2 * i - 1], clean[2 * i] >>]]

\* len(audio_data)
ALen(audio_data) == Len(audio_data.samples)

AudioResult(meta, st) ==
    IF FromBufferOk(st.clean)
    THEN [success |-> TRUE, meta |-> meta, audio_data |-> FromBuffer(st.clean),
          timestamps |-> st.timestamps]
    ELSE [success |-> FALSE, meta |-> None, audio_data |-> None,
          timestamps |-> << >>]

AudioFail ==
    [success |-> FALSE, meta |-> None, audio_data |-> None, timestamps |-> << >>]

parse_audio_file(f) ==
    IF ~f.exists THEN AudioFail
    ELSE LET meta == read_vesper_header(f, AUD_HEADER_SIZE)
         IN  IF meta.kind # "meta" THEN AudioFail
             ELSE AudioResult(meta, ScanRun(f.body, ScanInit))

(***************************************************************************)
(* Output tree.  fs maps each existing output path to its contents, dirs   *)
(* is the set of existing output directories.  A path is [dir, ext, name]  *)
(* with the name a sequence of integers: the formatted instants and the    *)
(* device id.                                                              *)
(***************************************************************************)
Path(dir, ext, name) == [dir |-> dir, ext |-> ext, name |-> name]

\* Faulty variant: the existence of the output is not looked at.
FsExistsNever(fs, p) == FALSE

FsExists(fs, p) == p \in DOMAIN fs

FsWrite(fs, p, content) ==
    [q \in (DOMAIN fs) \cup {p} |-> IF q = p THEN content ELSE fs[q]]

\* strftime("%Y%m%d_%H%M%S"): the day and the whole seconds of the instant.
StrfTime(t) == << t.day, t.ms \div 1000 >>

(***************************************************************************)
(* GPS decoder (src/src/parsers/gps_parser.py).                            *)
(*                                                                         *)
(* A 32-bit word is [hi, lo], two 16-bit halves.  A GPS file is [exists,   *)
(* hdr_len, head4, ts, words, tail, write_fails]: hdr_len bytes of the     *)
(* 1024-byte preamble are present, head4 its first four bytes, ts the      *)
(* bytes at offsets 4..6 and 9..11, words the complete 4-byte groups after *)
(* the preamble (each << b0, b1, b2, b3 >>), tail the trailing bytes.      *)
(***************************************************************************)
METADATA_HEADER_SIZE == 1024
GPS_MIN_HEADER == 16
MAGIC_WORD == [hi |-> 42330, lo |-> 42330]   \* 0xA55AA55A

\* struct.unpack('<I', b) / dtype '<u4'
U32LE(b) == [hi |-> b[3] + 256 * b[4], lo |-> b[1] + 256 * b[2]]

RECURSIVE BitOr(_, _)
BitOr(a, b) ==
    IF a = 0 THEN b
    ELSE IF b = 0 THEN a
    ELSE (IF (a % 2 = 1) \/ (b % 2 = 1) THEN 1 ELSE 0)
         + 2 * BitOr(a \div 2, b \div 2)

\* uint32 arithmetic: the shifts drop the bits that leave the word.
Shl16(w) == [hi |-> w.lo, lo |-> 0]

\* Faulty variant: the words are read as signed, the right shift extends the
\* sign bit.
Shr16Signed(w) == [hi |-> IF w.hi >= 32768 THEN 65535 ELSE 0, lo |-> w.hi]

Shr16(w) == [hi |-> 0, lo |-> w.hi]
Or32(a, b) == [hi |-> BitOr(a.hi, b.hi), lo |-> BitOr(a.lo, b.lo)]

\* swapped_data = (raw_data << 16) | (raw_data >> 16)
WordSwap(w) == Or32(Shl16(w), Shr16(w))

GpsFileSize(f) ==
    IF f.hdr_len < METADATA_HEADER_SIZE THEN f.hdr_len
    ELSE METADATA_HEADER_SIZE + 4 * Len(f.words) + f.tail

\* np.fromfile(filepath, dtype='<u4', offset=METADATA_HEADER_SIZE)
GpsRawData(f) ==
    IF GpsFileSize(f) < METADATA_HEADER_SIZE THEN << >>
    ELSE [i \in 1..((GpsFileSize(f) - METADATA_HEADER_SIZE) \div 4) |->
            U32LE(f.words[i])]

GpsOutputPath(f) ==
    Path("gps/snapshots", "dat",
         << 2000 + f.ts.yr, f.ts.mon, f.ts.day, f.ts.h, f.ts.m, f.ts.s >>)

\* Faulty variant: the magic word is not compared.
GpsMagicOkAny(f) == TRUE

\* magic = struct.unpack('<I', header_bytes[0:4])[0]; magic == MAGIC_WORD
GpsMagicOk(f) == U32LE(f.head4) = MAGIC_WORD

GpsReturn(ok, fs, dirs) == [success |-> ok, fs |-> fs, dirs |-> dirs]

parse_gps_file(f, fs, dirs) ==
    IF ~f.exists THEN GpsReturn(FALSE, fs, dirs)
    ELSE IF f.hdr_len < GPS_MIN_HEADER THEN GpsReturn(FALSE, fs, dirs)
    ELSE IF ~GpsMagicOk(f) THEN GpsReturn(FALSE, fs, dirs)
    ELSE LET output_path == GpsOutputPath(f)
             dirs2       == dirs \cup {"gps", "gps/snapshots"}
             raw_data    == GpsRawData(f)
         IN  IF FsExists(fs, output_path) THEN GpsReturn(FALSE, fs, dirs2)
             ELSE IF Len(raw_data) = 0 THEN GpsReturn(FALSE, fs, dirs2)
             ELSE IF f.write_fails THEN GpsReturn(FALSE, fs, dirs2)
             ELSE GpsReturn(TRUE,
                            FsWrite(fs, output_path,
                                    [i \in 1..Len(raw_data) |-> WordSwap(raw_data[i])]),
                            dirs2)

(***************************************************************************)
(* Artifact writer (src/src/core/finisher.py).                             *)
(***************************************************************************)
FinisherDirs == {"gps", "imu", "aud"}

\* session_device_id = None
NoDevice == -1

SidecarKeys ==
    {"DeviceID", "HWID", "FWID", "Sensor", "SampleRate", "WinRate", "WinLen",
     "Config0", "Config1", "Config2", "Config3", "Bitmask"}

MetaReturn(fs, dirs, raised) == [fs |-> fs, dirs |-> dirs, raised |-> raised]

\* FileFinisher.generate_metadata_file; raised is "none" or the exception
\* that leaves the method.
generate_metadata_file(fs, dirs, meta, end_time, time_stamps, write_fails) ==
    LET start_str == StrfTime(meta.Start_Time)
        name      == IF end_time # None
                     THEN start_str \o StrfTime(end_time) \o << meta.DeviceID >>
                     ELSE start_str \o << meta.DeviceID >>
        meta_dir  == IF meta.Sensor = "IMU10" THEN "imu/metadata"
                     ELSE IF meta.Sensor = "SPH0641" THEN "aud/metadata"
                     ELSE "none"
        txt_path  == Path(meta_dir, "txt", name)
        dirs2     == dirs \cup {meta_dir}
    IN  IF meta_dir = "none" THEN MetaReturn(fs, dirs, "none")
        ELSE IF FsExists(fs, txt_path) THEN MetaReturn(fs, dirs2, "none")
        ELSE IF ~(SidecarKeys \subseteq DOMAIN meta)
             THEN MetaReturn(fs, dirs2, "KeyError")
        ELSE IF write_fails THEN MetaReturn(fs, dirs2, "none")
        ELSE MetaReturn(FsWrite(fs, txt_path,
                                [kind |-> "txt", meta |-> meta,
                                 blocks |-> time_stamps]),
                        dirs2, "none")

SaveReturn(ok, fs) == [success |-> ok, fs |-> fs]

\* FileFinisher.save_imu_csv: dataframe is the sequence of rows.
save_imu_csv(fs, dataframe, uid, write_fails) ==
    IF Len(dataframe) = 0 THEN SaveReturn(FALSE, fs)
    ELSE LET start_dt == dataframe[1]["Time"]
             end_dt   == dataframe[Len(dataframe)]["Time"]
             output_path ==
                 Path("imu", "csv",
                      StrfTime(start_dt) \o StrfTime(end_dt) \o << uid >>)
         IN  IF write_fails THEN SaveReturn(FALSE, fs)
             ELSE SaveReturn(TRUE,
                             FsWrite(fs, output_path,
                                     [kind |-> "csv", rows |-> dataframe]))

\* duration_seconds = len(audio_data) / meta['SampleRate'], in milliseconds.
DurationMs(audio_data, meta) == (ALen(audio_data) * 1000) \div meta.SampleRate

\* FileFinisher.save_aud_wav; a zero sample rate raises inside the try.
save_aud_wav(fs, audio_data, meta, write_fails) ==
    IF audio_data = None \/ ALen(audio_data) = 0 THEN SaveReturn(FALSE, fs)
    ELSE IF meta.SampleRate = 0 THEN SaveReturn(FALSE, fs)
    ELSE LET start_dt == meta.Start_Time
             end_dt   == AddMs(start_dt, DurationMs(audio_data, meta))
             output_path ==
                 Path("aud", "wav",
                      StrfTime(start_dt) \o StrfTime(end_dt) \o << meta.DeviceID >>)
         IN  IF write_fails THEN SaveReturn(FALSE, fs)
             ELSE SaveReturn(TRUE,
                             FsWrite(fs, output_path,
                                     [kind |-> "wav", rate |-> meta.SampleRate,
                                      samples |-> audio_data.samples]))

(***************************************************************************)
(* Coordinator helpers (src/src/main.py).                                  *)
(***************************************************************************)
Front(q) == SubSeq(q, 1, Len(q) - 1)
Last(q) == q[Len(q)]

DigitChars == {"0", "1", "2", "3", "4", "5", "6", "7", "8", "9"}

DigitVal(c) ==
    CASE c = "0" -> 0 [] c = "1" -> 1 [] c = "2" -> 2 [] c = "3" -> 3
      [] c = "4" -> 4 [] c = "5" -> 5 [] c = "6" -> 6 [] c = "7" -> 7
      [] c = "8" -> 8 [] c = "9" -> 9

RECURSIVE DigitsValue(_)
DigitsValue(ds) ==
    IF ds = << >> THEN 0 ELSE 10 * DigitsValue(Front(ds)) + DigitVal(Last(ds))

\* re.search(r'(\d+)', basename): the first maximal run of digits, else 0.
\* A path is [session, fam, base], base the basename as a sequence of characters.
extract_file_number(filepath) ==
    LET b  == filepath.base
        ds == {i \in 1..Len(b) : b[i] \in DigitChars}
    IN  IF ds = {} THEN 0
        ELSE LET i == CHOOSE x \in ds : \A y \in ds : x <= y
                 j == CHOOSE x \in i..Len(b) :
                        /\ \A k \in i..x : b[k] \in DigitChars
                        /\ (x = Len(b) \/ b[x + 1] \notin DigitChars)
             IN  DigitsValue(SubSeq(b, i, j))

\* list.sort(key=extract_file_number): a stable sort.
RECURSIVE InsertFile(_, _)
InsertFile(sorted, x) ==
    IF sorted = << >> THEN << x >>
    ELSE IF extract_file_number(x) < extract_file_number(Last(sorted))
         THEN Append(InsertFile(Front(sorted), x), Last(sorted))
         ELSE Append(sorted, x)

RECURSIVE SortFiles(_)
SortFiles(files) ==
    IF files = << >> THEN << >>
    ELSE InsertFile(SortFiles(Front(files)), Last(files))

\* imu_df.sort_values(by='Time'); rows of equal Time keep their order here.
RECURSIVE InsertRow(_, _)
InsertRow(sorted, x) ==
    IF sorted = << >> THEN << x >>
    ELSE IF TimeLess(x["Time"], Last(sorted)["Time"])
         THEN Append(InsertRow(Front(sorted), x), Last(sorted))
         ELSE Append(sorted, x)

RECURSIVE SortByTime(_)
SortByTime(rows) ==
    IF rows = << >> THEN << >>
    ELSE InsertRow(SortByTime(Front(rows)), Last(rows))

\* `df, meta = parse_imu_file(filepath)` followed by `df.empty`: the exception
\* the statement raises for the value returned, "none" for a 2-tuple.
ImuUnpack(ret) ==
    IF ret.kind = "tuple" THEN "none"
    ELSE IF ret = None THEN "TypeError"
    ELSE IF Len(ret.columns) = 2 THEN "AttributeError"
    ELSE "ValueError"

StatsInit ==
    [total |-> 0, total_imu |-> 0, total_aud |-> 0, total_gps |-> 0,
     success_imu |-> 0, success_aud |-> 0, success_gps |-> 0,
     failed_imu |-> 0, failed_aud |-> 0, failed_gps |-> 0,
     errors |-> << >>]

ErrorEntry(filepath, reason) == [file |-> filepath, reason |-> reason]

\* The except-handlers and else-branches of the three file loops.
ImuCrash(st, filepath, exc) ==
    [st EXCEPT !.failed_imu = @ + 1,
               !.errors = Append(@, ErrorEntry(filepath, << "IMU Crash", exc >>))]

ImuReturnedNone(st, filepath) ==
    [st EXCEPT !.failed_imu = @ + 1,
               !.errors = Append(@, ErrorEntry(filepath,
                                 << "IMU Parser returned None or Empty DF", "" >>))]

AudCrash(st, filepath, exc) ==
    [st EXCEPT !.failed_aud = @ + 1,
               !.errors = Append(@, ErrorEntry(filepath, << "AUDIO Crash", exc >>))]

AudReturnedFalse(st, filepath) ==
    [st EXCEPT !.failed_aud = @ + 1,
               !.errors = Append(@, ErrorEntry(filepath,
                                 << "AUDIO Parser returned None or Empty DF", "" >>))]

\* Faulty variant: the loop body is not wrapped in try/except, an exception ends main().
LoopPcAfterUncaught(pc0, exc) == IF exc # "none" THEN "crashed" ELSE pc0

\* `except Exception as e:` of the IMU loop (line 167) and of the audio loop
\* (line 253): the exception is handled and the loop goes on.
LoopPcAfter(pc0, exc) == pc0

\* Faulty variant: the failure is counted and no entry is appended.
GpsReturnedFalseNoEntry(st, filepath) == [st EXCEPT !.failed_gps = @ + 1]

GpsReturnedFalse(st, filepath) ==
    [st EXCEPT !.failed_gps = @ + 1,
               !.errors = Append(@, ErrorEntry(filepath,
                                 << "GPS Parser failed (Magic mismatch or empty)", "" >>))]

(***************************************************************************)
(* Input files the model draws from.                                       *)
(***************************************************************************)
\* Header bytes 07 34 51 .. 09 29 25: 2025-09-29 07:34:51 in BCD.
BcdGood == [h |-> 7, m |-> 3 * 16 + 4, s |-> 5 * 16 + 1,
            mon |-> 9, day |-> 2 * 16 + 9, yr |-> 2 * 16 + 5]
\* Month byte 0x13.
BcdBadMonth == [BcdGood EXCEPT !.mon = 16 + 3]
\* Day byte 0x32; year byte 0xA0, which bcd_to_int takes to 100; the 30th of
\* February; hour byte 0x25.
BcdSet ==
    {BcdGood, BcdBadMonth,
     [BcdGood EXCEPT !.day = 3 * 16 + 2],
     [BcdGood EXCEPT !.yr = 10 * 16],
     [BcdGood EXCEPT !.mon = 2, !.day = 3 * 16],
     [BcdGood EXCEPT !.h = 2 * 16 + 5]}

FileMtime == Datetime(2025, 10, 1, 12, 0, 0)

ImuRecord(i) == [k \in 1..9 |-> 10 * i + k]

MkImu(exists, hdr, rate, bcd, n, tail, txt_fails) ==
    [exists |-> exists, hdr |-> hdr, device_id |-> 7, sensor |-> "IMU10",
     sample_rate |-> rate, bcd |-> bcd, mtime |-> FileMtime,
     recs |-> IF hdr = HEADER_SIZE THEN [i \in 1..n |-> ImuRecord(i)] ELSE << >>,
     tail |-> IF hdr = HEADER_SIZE THEN tail ELSE 0,
     txt_fails |-> txt_fails]

ImuFileSet ==
    {MkImu(e, hdr, rate, bcd, n, tail, FALSE) :
        e \in BOOLEAN, hdr \in {BCD_END - 1, BCD_END, HEADER_SIZE},
        rate \in {0, 50, 100}, bcd \in BcdSet,
        n \in 0..MaxRecords, tail \in {0, 1, RECORD_SIZE - 1}}

ImuInputs ==
    {MkImu(FALSE, HEADER_SIZE, 50, BcdGood, 1, 0, FALSE),
     MkImu(TRUE, BCD_END, 50, BcdGood, 0, 0, FALSE),
     MkImu(TRUE, HEADER_SIZE, 50, BcdGood, 0, 0, FALSE),
     MkImu(TRUE, HEADER_SIZE, 0, BcdGood, 1, RECORD_SIZE - 1, TRUE),
     MkImu(TRUE, HEADER_SIZE, 50, BcdBadMonth, 1, 0, FALSE),
     MkImu(TRUE, HEADER_SIZE, 50, BcdGood, 2, 0, FALSE)}

DataBytes(n) == [i \in 1..n |-> 170]

\* A footer: the magic, hh mm ss pad pad mon day yy, then FF 03.
Footer(ts) == FOOTER_MAGIC \o ts \o << 255, 3 >>

TsGood == << 7, 3 * 16 + 4, 5 * 16 + 1, 0, 4, 9, 2 * 16 + 9, 2 * 16 + 5 >>
TsBadMonth == << 7, 3 * 16 + 4, 5 * 16 + 1, 0, 4, 16 + 3, 2 * 16 + 9, 2 * 16 + 5 >>

MkAud(exists, hdr, sensor, rate, body, wav_fails) ==
    [exists |-> exists, hdr |-> hdr, device_id |-> 9, sensor |-> sensor,
     sample_rate |-> rate, bcd |-> BcdGood, mtime |-> FileMtime,
     body |-> IF hdr = AUD_HEADER_SIZE THEN body ELSE << >>,
     wav_fails |-> wav_fails, txt_fails |-> FALSE]

AudInputs ==
    {MkAud(FALSE, AUD_HEADER_SIZE, "MIC", 48000, DataBytes(4), FALSE),
     MkAud(TRUE, 100, "MIC", 48000, << >>, FALSE),
     MkAud(TRUE, AUD_HEADER_SIZE, "MIC", 48000, << >>, FALSE),
     MkAud(TRUE, AUD_HEADER_SIZE, "SPH0641", 48000, << >>, FALSE),
     MkAud(TRUE, AUD_HEADER_SIZE, "MIC", 48000, DataBytes(4), FALSE),
     MkAud(TRUE, AUD_HEADER_SIZE, "MIC", 48000, DataBytes(4), TRUE),
     MkAud(TRUE, AUD_HEADER_SIZE, "SPH0641", 48000, DataBytes(4), FALSE),
     MkAud(TRUE, AUD_HEADER_SIZE, "MIC", 0, DataBytes(4), FALSE),
     MkAud(TRUE, AUD_HEADER_SIZE, "MIC", 48000, DataBytes(3), FALSE),
     MkAud(TRUE, AUD_HEADER_SIZE, "MIC", 48000, Footer(TsGood) \o DataBytes(2), FALSE)}

\* Payloads of sample bytes and whole footers, the last footer possibly cut
\* short by the end of the file after its magic.
FooterCuts ==
    {SubSeq(Footer(TsGood), 1, t) : t \in Len(FOOTER_MAGIC)..(FOOTER_LEN - 1)}

AudPayloads ==
    {DataBytes(a) : a \in 0..MaxGap}
    \cup {DataBytes(a) \o ft \o DataBytes(c) :
            a \in 0..MaxGap, c \in 0..MaxGap, ft \in {Footer(TsGood)}}
    \cup {DataBytes(a) \o ft : a \in 0..MaxGap, ft \in FooterCuts}
    \cup {DataBytes(a) \o Footer(TsGood) \o DataBytes(b) \o Footer(TsBadMonth)
            \o DataBytes(c) :
            a \in 0..MaxGap, b \in 0..MaxGap, c \in 0..MaxGap}
    \cup {DataBytes(a) \o Footer(TsGood) \o DataBytes(b) \o ft :
            a \in 0..MaxGap, b \in 0..MaxGap, ft \in FooterCuts}

\* Files of sample bytes alone are drawn with a valid and an invalid BCD
\* date and with two modification times as well.
AudFileSet ==
    {MkAud(TRUE, AUD_HEADER_SIZE, "MIC", 48000, body, FALSE) :
        body \in AudPayloads}
    \cup {[MkAud(TRUE, AUD_HEADER_SIZE, "MIC", 48000, DataBytes(a), FALSE)
              EXCEPT !.bcd = b, !.mtime = t] :
            a \in 0..MaxGap, b \in {BcdGood, BcdBadMonth},
            t \in {FileMtime, AddMs(FileMtime, 1000)}}

GpsMagicBytes == << 90, 165, 90, 165 >>      \* 5A A5 5A A5
GpsTs == [h |-> 7, m |-> 34, s |-> 51, mon |-> 9, day |-> 29, yr |-> 25]

MkGps(exists, hdr_len, head4, nwords, tail, write_fails) ==
    [exists |-> exists, hdr_len |-> hdr_len, head4 |-> head4, ts |-> GpsTs,
     words |-> IF hdr_len = METADATA_HEADER_SIZE
               THEN [i \in 1..nwords |-> << 221, 204, 187, 170 + i - 1 >>]
               ELSE << >>,
     tail |-> IF hdr_len = METADATA_HEADER_SIZE THEN tail ELSE 0,
     write_fails |-> write_fails]

GpsInputs ==
    {MkGps(FALSE, METADATA_HEADER_SIZE, GpsMagicBytes, 1, 0, FALSE),
     MkGps(TRUE, GPS_MIN_HEADER - 1, GpsMagicBytes, 0, 0, FALSE),
     MkGps(TRUE, METADATA_HEADER_SIZE, << 90, 165, 90, 164 >>, 1, 0, FALSE),
     MkGps(TRUE, METADATA_HEADER_SIZE, GpsMagicBytes, 0, 3, FALSE),
     MkGps(TRUE, METADATA_HEADER_SIZE, GpsMagicBytes, 1, 0, FALSE),
     MkGps(TRUE, METADATA_HEADER_SIZE, GpsMagicBytes, 2, 1, TRUE)}

\* Payload words: 0xAABBCCDD, 0, 0xFFFFFFFF and 0x80000001, low byte first.
GpsWordSet ==
    {<< 221, 204, 187, 170 >>, << 0, 0, 0, 0 >>, << 255, 255, 255, 255 >>,
     << 1, 0, 0, 128 >>}

GpsWordSeqs == UNION {[1..n -> GpsWordSet] : n \in 0..MaxWords}

GpsFileSet ==
    {[exists |-> TRUE, hdr_len |-> METADATA_HEADER_SIZE, head4 |-> h4,
      ts |-> GpsTs, words |-> ws, tail |-> t, write_fails |-> wf] :
        h4 \in {GpsMagicBytes, << 90, 165, 90, 164 >>},
        ws \in GpsWordSeqs, t \in {0, 3}, wf \in BOOLEAN}
    \cup {MkGps(FALSE, METADATA_HEADER_SIZE, GpsMagicBytes, 1, 0, FALSE),
          MkGps(TRUE, GPS_MIN_HEADER - 1, GpsMagicBytes, 0, 0, FALSE)}

\* The crawler's mapping: NumSessions sessions, each a files_map with at most
\* MaxFiles paths per family, in the order os.walk yields them (descending
\* file numbers here, so that the coordinator's sort has something to do).
FileChar(k) ==
    CASE k = 0 -> "0" [] k = 1 -> "1" [] k = 2 -> "2" [] k = 3 -> "3"
      [] k = 4 -> "4" [] k = 5 -> "5" [] k = 6 -> "6" [] k = 7 -> "7"
      [] k = 8 -> "8" [] k = 9 -> "9"

CrawlPath(session, fam, n, k) ==
    [session |-> session, fam |-> fam, base |-> << FileChar(n + 1 - k), "M" >>]

FilesMap(session, c) ==
    [imu |-> [k \in 1..c[1] |-> CrawlPath(session, "imu", c[1], k)],
     aud |-> [k \in 1..c[2] |-> CrawlPath(session, "aud", c[2], k)],
     gps |-> [k \in 1..c[3] |-> CrawlPath(session, "gps", c[3], k)]]

RECURSIVE SumCounts(_)
SumCounts(cs) ==
    IF cs = << >> THEN 0
    ELSE SumCounts(Front(cs)) + Last(cs)[1] + Last(cs)[2] + Last(cs)[3]

Mappings ==
    {[sn \in 1..NumSessions |-> FilesMap(sn, cs[sn])] :
        cs \in {x \in [1..NumSessions -> (0..MaxFiles) \X (0..MaxFiles) \X (0..MaxFiles)] :
                    SumCounts(x) <= MaxTotalFiles}}

RECURSIVE TotalFiles(_)
TotalFiles(sessions) ==
    IF sessions = << >> THEN 0
    ELSE TotalFiles(Front(sessions)) + Len(Last(sessions).imu)
         + Len(Last(sessions).aud) + Len(Last(sessions).gps)

\* The output tree before the run holds no file.  (An output that exists
\* already is met within a run: two GPS files with the same header instant.)
FsEmpty == [q \in {} |-> 0]

(***************************************************************************)
(* State.                                                                  *)
(***************************************************************************)
VARIABLES
    all_sessions,       \* the crawler's mapping, a sequence of files_map
    pc,                 \* the coordinator's position in main()
    sidx,               \* index of the current session
    fidx,               \* index of the next file in the current loop
    imu_files,          \* the sorted IMU list of the current session
    imu_df,             \* rows of the session's merged IMU table
    session_device_id,
    last_meta,
    stats,
    fs,                 \* output tree: path -> contents
    dirs,               \* output directories
    input_txt,          \* input paths next to which a .txt was written
    summaries,          \* calls of generate_summary
    visited,            \* input paths handed to a decoder
    last,               \* the file step just taken: path, input, outcome
    decoded_rows,       \* rows of the session's IMU files decoded to a table
    imu_file,           \* IMU decoder on its own: input and return value
    imu_ret,
    aud_file,           \* audio decoder on its own: input, scan state and
    aud_st,             \* return value
    aud_ret,
    gps_file,           \* GPS decoder on its own: input, output tree, return
    gps_fs,             \* value of the latest run and number of runs
    gps_ret,
    gps_runs,
    fin,                \* FileFinisher on its own: output tree and calls made
    srt                 \* the IMU list of one session, as crawled and as sorted

vars ==
    << all_sessions, pc, sidx, fidx, imu_files, imu_df, session_device_id,
       last_meta, stats, fs, dirs, input_txt, summaries, visited, last,
       decoded_rows, imu_file, imu_ret, aud_file, aud_st, aud_ret,
       gps_file, gps_fs, gps_ret, gps_runs, fin, srt >>

coordVars ==
    << all_sessions, pc, sidx, fidx, imu_files, imu_df, session_device_id,
       last_meta, stats, fs, dirs, input_txt, summaries, visited, last,
       decoded_rows >>

imuVars == << imu_file, imu_ret >>

audVars == << aud_file, aud_st, aud_ret >>

gpsVars == << gps_file, gps_fs, gps_ret, gps_runs >>

Pending == [kind |-> "pending"]
NoStep == [fam |-> "none"]

ImuIdle == imu_file = None /\ imu_ret = Pending

AudIdle == aud_file = None /\ aud_st = Pending /\ aud_ret = Pending

GpsIdle ==
    gps_file = None /\ gps_fs = FsEmpty /\ gps_ret = Pending /\ gps_runs = 0

\* No FileFinisher call and no sort on their own.
FinIdle == fin = None /\ srt = None

CoordIdle ==
    /\ all_sessions = << >>
    /\ pc = "idle"
    /\ sidx = 0
    /\ fidx = 0
    /\ imu_files = << >>
    /\ imu_df = << >>
    /\ session_device_id = NoDevice
    /\ last_meta = None
    /\ stats = StatsInit
    /\ fs = FsEmpty
    /\ dirs = {}
    /\ input_txt = {}
    /\ summaries = 0
    /\ visited = {}
    /\ last = NoStep
    /\ decoded_rows = 0

(***************************************************************************)
(* main(): state after FileFinisher(processed_folder) and find_raw_files.  *)
(***************************************************************************)
Init ==
    /\ all_sessions \in Mappings
    /\ pc = "session"
    /\ sidx = 1
    /\ fidx = 1
    /\ imu_files = << >>
    /\ imu_df = << >>
    /\ session_device_id = NoDevice
    /\ last_meta = [kind |-> "unbound"]  \* no session has bound the name yet
    /\ stats = StatsInit
    /\ fs = FsEmpty
    /\ dirs = FinisherDirs
    /\ input_txt = {}
    /\ summaries = 0
    /\ visited = {}
    /\ last = NoStep
    /\ decoded_rows = 0
    /\ ImuIdle
    /\ AudIdle
    /\ GpsIdle
    /\ FinIdle

CurMap == all_sessions[sidx]

\* Faulty variant: the assignments of lines 139-141 are missing, the merged
\* table, the device id and the header are what the session before left.
BeginSessionNoReset ==
    /\ pc = "session"
    /\ sidx <= Len(all_sessions)
    /\ imu_files' = SortFiles(CurMap.imu)
    /\ stats' = [stats EXCEPT !.total_imu = @ + Len(CurMap.imu)]
    /\ fidx' = 1
    /\ pc' = IF CurMap.imu # << >> THEN "imu" ELSE "aud_begin"
    /\ decoded_rows' = 0
    /\ UNCHANGED << all_sessions, sidx, fs, dirs, input_txt, summaries, visited,
                    last, imu_df, session_device_id, last_meta, imuVars,
                    audVars, gpsVars, fin, srt >>

\* Lines 129-141: the head of the session loop and the IMU set-up.
BeginSession ==
    /\ pc = "session"
    /\ sidx <= Len(all_sessions)
    /\ imu_files' = SortFiles(CurMap.imu)
    /\ stats' = [stats EXCEPT !.total_imu = @ + Len(CurMap.imu)]
    /\ imu_df' = << >>
    /\ session_device_id' = NoDevice
    /\ last_meta' = None
    /\ fidx' = 1
    /\ pc' = IF CurMap.imu # << >> THEN "imu" ELSE "aud_begin"
    /\ decoded_rows' = 0
    /\ UNCHANGED << all_sessions, sidx, fs, dirs, input_txt, summaries, visited,
                    last, imuVars,
                    audVars, gpsVars, fin, srt >>

Step(fam, filepath, f, outcome, exc) ==
    [fam |-> fam, path |-> filepath, input |-> f, outcome |-> outcome, exc |-> exc]

\* Lines 147-174: one iteration of the IMU file loop.
ImuFile ==
    /\ pc = "imu"
    /\ fidx <= Len(imu_files)
    /\ \E f \in ImuInputs :
        LET filepath == imu_files[fidx]
            ret      == parse_imu_file(f)
            exc      == ImuUnpack(ret)
        IN  /\ input_txt' = IF ImuWritesInputTxt(f)
                            THEN input_txt \cup {filepath} ELSE input_txt
            /\ IF exc # "none"
               THEN /\ stats' = ImuCrash(stats, filepath, exc)
                    /\ last' = Step("imu", filepath, f, "crash", exc)
                    /\ UNCHANGED << imu_df, session_device_id, last_meta >>
               ELSE IF ret.df # None /\ Len(ret.df.rows) > 0
               THEN /\ stats' = [stats EXCEPT !.success_imu = @ + 1]
                    /\ imu_df' = imu_df \o ret.df.rows
                    /\ IF session_device_id = NoDevice /\ ret.meta # None
                       THEN /\ session_device_id' = ret.meta.DeviceID
                            /\ last_meta' = ret.meta
                       ELSE UNCHANGED << session_device_id, last_meta >>
                    /\ last' = Step("imu", filepath, f, "success", "none")
               ELSE /\ stats' = ImuReturnedNone(stats, filepath)
                    /\ last' = Step("imu", filepath, f, "failed", "none")
                    /\ UNCHANGED << imu_df, session_device_id, last_meta >>
            /\ visited' = visited \cup {filepath}
            /\ decoded_rows' = decoded_rows
                                + (IF ret = None THEN 0
                                   ELSE IF ret.kind = "tuple"
                                        THEN (IF ret.df = None THEN 0 ELSE Len(ret.df.rows))
                                   ELSE Len(ret.rows))
            /\ pc' = LoopPcAfter(pc, exc)
    /\ fidx' = fidx + 1
    /\ UNCHANGED << all_sessions, sidx, imu_files, fs, dirs, summaries, imuVars,
                    audVars, gpsVars, fin, srt >>

\* Lines 176-197: after the IMU loop, sort, save the CSV and write the sidecar.
\* An exception of generate_metadata_file is not caught here and ends main().
ImuSave ==
    /\ pc = "imu"
    /\ fidx > Len(imu_files)
    /\ IF imu_df = << >>
       THEN /\ pc' = "aud_begin"
            /\ UNCHANGED << imu_df, last_meta, fs, dirs >>
       ELSE \E csv_fails \in BOOLEAN :
            LET sorted     == SortByTime(imu_df)
                start_time == sorted[1]["Time"]
                end_time   == sorted[Len(sorted)]["Time"]
                meta2      == IF last_meta # None
                              THEN [last_meta EXCEPT !.Start_Time = start_time]
                              ELSE None
                saved      == save_imu_csv(fs, sorted, session_device_id, csv_fails)
                wrote      == IF saved.success /\ meta2 # None
                              THEN generate_metadata_file(saved.fs, dirs, meta2,
                                                          end_time, << >>, FALSE)
                              ELSE MetaReturn(saved.fs, dirs, "none")
            IN  /\ imu_df' = sorted
                /\ last_meta' = meta2
                /\ fs' = wrote.fs
                /\ dirs' = wrote.dirs
                /\ pc' = IF wrote.raised # "none" THEN "crashed" ELSE "aud_begin"
    /\ UNCHANGED << all_sessions, sidx, fidx, imu_files, session_device_id, stats,
                    input_txt, summaries, visited, last, decoded_rows, imuVars,
                    audVars, gpsVars, fin, srt >>

\* Lines 206-207.
BeginAudio ==
    /\ pc = "aud_begin"
    /\ stats' = [stats EXCEPT !.total_aud = @ + Len(CurMap.aud)]
    /\ fidx' = 1
    /\ pc' = "aud"
    /\ UNCHANGED << all_sessions, sidx, imu_files, imu_df, session_device_id,
                    last_meta, fs, dirs, input_txt, summaries, visited, last,
                    decoded_rows, imuVars,
                    audVars, gpsVars, fin, srt >>

\* Lines 226-243: the body of the try-block after a successful parse; the
\* exception that leaves it ("none" when it completes), and the output tree.
AudioBody(ret, f, fs0, dirs0) ==
    LET has   == ret.audio_data # None /\ ALen(ret.audio_data) > 0 /\ ret.meta # None
        end_t == IF has
                 THEN AddMs(ret.meta.Start_Time, DurationMs(ret.audio_data, ret.meta))
                 ELSE None
        wrote == IF ret.meta # None
                 THEN generate_metadata_file(fs0, dirs0, ret.meta, end_t,
                                             ret.timestamps, f.txt_fails)
                 ELSE MetaReturn(fs0, dirs0, "none")
        saved == IF ret.audio_data # None /\ ALen(ret.audio_data) > 0
                 THEN save_aud_wav(wrote.fs, ret.audio_data, ret.meta, f.wav_fails)
                 ELSE SaveReturn(FALSE, wrote.fs)
    IN  IF has /\ ret.meta.SampleRate = 0
        THEN MetaReturn(fs0, dirs0, "ZeroDivisionError")
        ELSE IF wrote.raised # "none" THEN wrote
        ELSE MetaReturn(saved.fs, wrote.dirs, "none")

\* Lines 212-259: one iteration of the audio file loop.
AudioFile ==
    /\ pc = "aud"
    /\ fidx <= Len(CurMap.aud)
    /\ \E f \in AudInputs :
        LET filepath == CurMap.aud[fidx]
            ret      == parse_audio_file(f)
            body     == AudioBody(ret, f, fs, dirs)
            counted  == [stats EXCEPT !.success_aud = @ + 1]
        IN  /\ IF ret.success
               THEN /\ fs' = body.fs
                    /\ dirs' = body.dirs
                    /\ IF body.raised # "none"
                       THEN /\ stats' = AudCrash(counted, filepath, body.raised)
                            /\ last' = Step("aud", filepath, f, "crash", body.raised)
                       ELSE /\ stats' = counted
                            /\ last' = Step("aud", filepath, f, "success", "none")
               ELSE /\ stats' = AudReturnedFalse(stats, filepath)
                    /\ last' = Step("aud", filepath, f, "failed", "none")
                    /\ UNCHANGED << fs, dirs >>
            /\ visited' = visited \cup {filepath}
            /\ pc' = LoopPcAfter(pc, IF ret.success THEN body.raised ELSE "none")
    /\ fidx' = fidx + 1
    /\ UNCHANGED << all_sessions, sidx, imu_files, imu_df, session_device_id,
                    last_meta, input_txt, summaries, decoded_rows, imuVars,
                    audVars, gpsVars, fin, srt >>

\* Lines 265-266.
BeginGps ==
    /\ pc = "aud"
    /\ fidx > Len(CurMap.aud)
    /\ stats' = [stats EXCEPT !.total_gps = @ + Len(CurMap.gps)]
    /\ fidx' = 1
    /\ pc' = "gps"
    /\ UNCHANGED << all_sessions, sidx, imu_files, imu_df, session_device_id,
                    last_meta, fs, dirs, input_txt, summaries, visited, last,
                    decoded_rows, imuVars,
                    audVars, gpsVars, fin, srt >>

\* Lines 273-285: one iteration of the GPS file loop.
GpsFile ==
    /\ pc = "gps"
    /\ fidx <= Len(CurMap.gps)
    /\ \E f \in GpsInputs :
        LET filepath == CurMap.gps[fidx]
            ret      == parse_gps_file(f, fs, dirs)
        IN  /\ fs' = ret.fs
            /\ dirs' = ret.dirs
            /\ IF ret.success
               THEN /\ stats' = [stats EXCEPT !.success_gps = @ + 1]
                    /\ last' = Step("gps", filepath, f, "success", "none")
               ELSE /\ stats' = GpsReturnedFalse(stats, filepath)
                    /\ last' = Step("gps", filepath, f, "failed", "none")
            /\ visited' = visited \cup {filepath}
    /\ fidx' = fidx + 1
    /\ UNCHANGED << all_sessions, pc, sidx, imu_files, imu_df, session_device_id,
                    last_meta, input_txt, summaries, decoded_rows, imuVars,
                    audVars, gpsVars, fin, srt >>

\* The session loop moves on to the next item of all_sessions.
EndSession ==
    /\ pc = "gps"
    /\ fidx > Len(CurMap.gps)
    /\ sidx' = sidx + 1
    /\ pc' = "session"
    /\ UNCHANGED << all_sessions, fidx, imu_files, imu_df, session_device_id,
                    last_meta, stats, fs, dirs, input_txt, summaries, visited,
                    last, decoded_rows, imuVars,
                    audVars, gpsVars, fin, srt >>

ReportPath == Path("report_cards", "txt", << 0 >>)

\* Lines 287-289 and generate_summary (lines 28-80).
Summary ==
    /\ pc = "session"
    /\ sidx > Len(all_sessions)
    /\ stats' = [stats EXCEPT
                    !.total = stats.total_imu + stats.total_aud + stats.total_gps]
    /\ summaries' = summaries + 1
    /\ dirs' = dirs \cup {"report_cards"}
    /\ fs' = FsWrite(fs, ReportPath, [kind |-> "report", stats |-> stats'])
    /\ pc' = "done"
    /\ UNCHANGED << all_sessions, sidx, fidx, imu_files, imu_df, session_device_id,
                    last_meta, input_txt, visited, last, decoded_rows, imuVars,
                    audVars, gpsVars, fin, srt >>

Next ==
    \/ BeginSession
    \/ ImuFile
    \/ ImuSave
    \/ BeginAudio
    \/ AudioFile
    \/ BeginGps
    \/ GpsFile
    \/ EndSession
    \/ Summary

Spec == Init /\ [][Next]_vars

\* main() is sequential code: a step that can be taken is taken.
FairSpec == Spec /\ WF_vars(Next)

(***************************************************************************)
(* The IMU decoder on its own: one call of parse_imu_file on a drawn file. *)
(***************************************************************************)
InitImu ==
    /\ CoordIdle
    /\ AudIdle
    /\ GpsIdle
    /\ FinIdle
    /\ imu_file \in ImuFileSet
    /\ imu_ret = Pending

ImuDecode ==
    /\ imu_ret = Pending
    /\ imu_file # None
    /\ imu_ret' = parse_imu_file(imu_file)
    /\ UNCHANGED << coordVars, imu_file, audVars, gpsVars, fin, srt >>

NextImu == ImuDecode

SpecImu == InitImu /\ [][NextImu]_vars

(***************************************************************************)
(* The audio decoder on its own: parse_audio_file on a drawn file with a   *)
(* readable header, one iteration of the scan loop per step.               *)
(***************************************************************************)
InitAud ==
    /\ CoordIdle
    /\ ImuIdle
    /\ GpsIdle
    /\ FinIdle
    /\ aud_file \in AudFileSet
    /\ aud_st = ScanInit
    /\ aud_ret = Pending

\* One iteration of the while loop of audio_parser.py, lines 127-159.
AudScanStep ==
    /\ aud_file # None
    /\ aud_ret = Pending
    /\ ScanRunning(aud_file.body, aud_st)
    /\ aud_st' = ScanStep(aud_file.body, aud_st)
    /\ UNCHANGED << coordVars, imuVars, gpsVars, aud_file, aud_ret, fin, srt >>

\* The loop has ended: np.frombuffer and the return, lines 162-192.
AudReturn ==
    /\ aud_file # None
    /\ aud_ret = Pending
    /\ ~ScanRunning(aud_file.body, aud_st)
    /\ aud_ret' = AudioResult(read_vesper_header(aud_file, AUD_HEADER_SIZE),
                              aud_st)
    /\ UNCHANGED << coordVars, imuVars, gpsVars, aud_file, aud_st, fin, srt >>

NextAud == AudScanStep \/ AudReturn

SpecAudio == InitAud /\ [][NextAud]_vars

\* The decoder is one sequential call: an enabled step is taken.
FairSpecAudio == SpecAudio /\ WF_vars(NextAud)

(***************************************************************************)
(* The GPS decoder on its own: parse_gps_file run up to MaxRuns times on   *)
(* one drawn file with the same output root, which starts empty.           *)
(***************************************************************************)
InitGps ==
    /\ CoordIdle
    /\ ImuIdle
    /\ AudIdle
    /\ FinIdle
    /\ gps_file \in GpsFileSet
    /\ gps_fs = FsEmpty
    /\ gps_ret = Pending
    /\ gps_runs = 0

\* One call parse_gps_file(filepath, output_root).
GpsDecode ==
    /\ gps_file # None
    /\ gps_runs < MaxRuns
    /\ LET ret == parse_gps_file(gps_file, gps_fs, FinisherDirs)
       IN  /\ gps_ret' = ret
           /\ gps_fs' = ret.fs
    /\ gps_runs' = gps_runs + 1
    /\ UNCHANGED << coordVars, imuVars, audVars, gps_file, fin, srt >>

NextGps == GpsDecode

SpecGps == InitGps /\ [][NextGps]_vars

(***************************************************************************)
(* FileFinisher on its own: generate_metadata_file called up to MaxCalls   *)
(* times on one output root, which starts empty.  The header dictionaries  *)
(* are those read_vesper_header builds and dictionaries holding every key  *)
(* the method reads.                                                       *)
(***************************************************************************)
FinMetas ==
    {read_vesper_header(MkAud(TRUE, AUD_HEADER_SIZE, sn, 48000, << >>, FALSE),
                        AUD_HEADER_SIZE) : sn \in {"SPH0641", "MIC"}}
    \cup {[kind |-> "meta", DeviceID |-> 9, HWID |-> 0, FWID |-> 112,
           Sensor |-> sn, SampleRate |-> 50, WinRate |-> 0, WinLen |-> 0,
           Bitmask |-> 0, Config0 |-> 0, Config1 |-> 0, Config2 |-> 0,
           Config3 |-> 0, Start_Time |-> t] :
             sn \in {"IMU10", "SPH0641", "MIC"},
             t \in {Datetime(2025, 9, 29, 7, 34, 51), FileMtime}}

InitFin ==
    /\ CoordIdle
    /\ ImuIdle
    /\ AudIdle
    /\ GpsIdle
    /\ srt = None
    /\ fin = [fs |-> FsEmpty, dirs |-> FinisherDirs, calls |-> 0, last |-> NoStep]

\* One call finisher.generate_metadata_file(meta, end_time, time_stamps).
FinMetadata ==
    /\ fin # None
    /\ fin.calls < MaxCalls
    /\ \E meta \in FinMetas, end_time \in {None, FileMtime},
          time_stamps \in {<< >>, << FooterTsStr(TsGood) >>},
          write_fails \in BOOLEAN :
          LET ret == generate_metadata_file(fin.fs, fin.dirs, meta, end_time,
                                            time_stamps, write_fails)
          IN  fin' = [fs |-> ret.fs, dirs |-> ret.dirs, calls |-> fin.calls + 1,
                      last |-> [meta |-> meta, end_time |-> end_time,
                                time_stamps |-> time_stamps,
                                raised |-> ret.raised]]
    /\ UNCHANGED << coordVars, imuVars, audVars, gpsVars, srt >>

NextFin == FinMetadata

SpecFin == InitFin /\ [][NextFin]_vars

(***************************************************************************)
(* The sort of a session's IMU list on its own (main.py:135-138): a list   *)
(* of up to MaxFiles + 1 paths with distinct basenames, in the order the   *)
(* crawler appended them, and the list after imu_files.sort.               *)
(***************************************************************************)
SortNames ==
    {<< "2" >>, << "1", "0" >>, << "b", "3", "a", "1" >>, << "b" >>, << "a" >>}

SortLists ==
    {[k \in DOMAIN names |->
         [session |-> 1, fam |-> "imu", base |-> names[k]]] :
        names \in {x \in UNION {[1..n -> SortNames] : n \in 0..(MaxFiles + 1)} :
                      \A a, b \in DOMAIN x : a # b => x[a] # x[b]}}

InitSort ==
    /\ CoordIdle
    /\ ImuIdle
    /\ AudIdle
    /\ GpsIdle
    /\ fin = None
    /\ \E files \in SortLists : srt = [files |-> files, sorted |-> << >>, done |-> FALSE]

\* imu_files.sort(key=extract_file_number)
SortCall ==
    /\ srt # None
    /\ ~srt.done
    /\ srt' = [srt EXCEPT !.sorted = SortFiles(srt.files), !.done = TRUE]
    /\ UNCHANGED << coordVars, imuVars, audVars, gpsVars, fin >>

NextSort == SortCall

SpecSort == InitSort /\ [][NextSort]_vars

(***************************************************************************)
(* Properties.                                                             *)
(***************************************************************************)
AllPaths ==
    UNION {{all_sessions[sn].imu[k] : k \in 1..Len(all_sessions[sn].imu)}
           \cup {all_sessions[sn].aud[k] : k \in 1..Len(all_sessions[sn].aud)}
           \cup {all_sessions[sn].gps[k] : k \in 1..Len(all_sessions[sn].gps)} :
           sn \in 1..Len(all_sessions)}

\* The audio step wrote (or tried to write) a WAV and the write raised.
WavWriteRaised(step) ==
    /\ step.fam = "aud"
    /\ step.outcome = "success"
    /\ step.input.wav_fails
    /\ ALen(parse_audio_file(step.input).audio_data) > 0

\* The file of the step failed: its decoder reported an error, an exception
\* was raised while it was processed, or writing its artifact raised.
StepFailed(step) ==
    \/ step.outcome \in {"failed", "crash"}
    \/ WavWriteRaised(step)

ErrorRecordedFor(step) ==
    /\ stats.errors # << >>
    /\ Last(stats.errors).file = step.path

\* C1: a failure on one input file (decode error, exception while decoding,
\* exception while writing an artifact) is recorded as a {file, reason} entry
\* of the run's error list, and every file of the mapping is still processed
\* by the end of the run.
C1_FailureRecordedRunContinues ==
    /\ (last.fam # "none" /\ StepFailed(last)) => ErrorRecordedFor(last)
    /\ (pc = "done") => (visited = AllPaths)

\* C2: every run reaches generate_summary exactly once, after the last
\* session has been processed and with every file handed to its decoder,
\* whatever the per-file outcomes were.
C2_SummaryReachedOnce ==
    /\ <>(pc = "done" /\ summaries = 1)
    /\ [](summaries <= 1)
    /\ []((summaries = 1) => (sidx > Len(all_sessions) /\ visited = AllPaths))

\* C2 witness: a finished run with one summary whose files failed in the IMU
\* loop by an exception and in the audio loop by an exception.
C2_Witness ==
    /\ pc = "done"
    /\ summaries = 1
    /\ stats.failed_imu > 0
    /\ \E k \in 1..Len(stats.errors) : stats.errors[k].reason[1] = "AUDIO Crash"

\* A complete header and at least one complete record.
WellFormedImu(f) == f.exists /\ f.hdr = HEADER_SIZE /\ Len(f.recs) >= 1

\* Moreover a valid BCD date, a positive sample rate and no partial record.
CleanImu(f) ==
    /\ WellFormedImu(f)
    /\ f.bcd = BcdGood
    /\ f.sample_rate > 0
    /\ f.tail = 0

\* C3: parse_imu_file returns a pair (table, header) or None, and a
\* well-formed IMU file is counted in success_imu, not in failed_imu.
C3_WellFormedImuSucceeds ==
    (last.fam = "imu") =>
        /\ parse_imu_file(last.input).kind \in {"tuple", "None"}
        /\ CleanImu(last.input) => (last.outcome = "success")

\* C4: after a session's IMU stage the merged table has as many rows as the
\* session's IMU files that decoded to a non-empty table have in total.
C4_MergedRowCount ==
    (pc = "aud_begin") => (Len(imu_df) = decoded_rows)

StrictlyIncreasingTime(rows) ==
    \A i \in 1..(Len(rows) - 1) : TimeLess(rows[i]["Time"], rows[i + 1]["Time"])

CsvPaths == {q \in DOMAIN fs : q.ext = "csv"}

C6_RowCount ==
    (imu_ret # Pending) =>
        /\ (imu_ret # None) =>
              /\ ImuFileSize(imu_file) >= 150
              /\ Len(imu_ret.rows) = (ImuFileSize(imu_file) - 150) \div 42
        /\ (WellFormedImu(imu_file) /\ imu_file.tail > 0) => (imu_ret # None)

\* C6 witness: a decoded file with two records and a partial third one.
C6_Witness ==
    /\ imu_ret # Pending
    /\ imu_ret # None
    /\ imu_file.tail = RECORD_SIZE - 1
    /\ Len(imu_ret.rows) = 2
    /\ ImuFileSize(imu_file) = 150 + 2 * 42 + 41

SpecColumns ==
    << "Time", "Minute", "Second", "Milisecond",
       "Acc X [mg]", "Acc Y [mg]", "Acc Z [mg]",
       "Gyro X [dps]", "Gyro Y [dps]", "Gyro Z [dps]",
       "Mag X [mGauss]", "Mag Y [mGauss]", "Mag Z [mGauss]",
       "Temperature [C]", "Bar Pressure [hPa]" >>

\* C7: the decoder's table has the 15 columns Time, Minute, Second,
\* Milisecond, Acc, Gyro, Mag, Temperature, Bar Pressure in this order, the
\* first float triple of a record in the Gyro columns, the second in the Acc
\* columns.
C7_ColumnsAndTriples ==
    (imu_ret # Pending /\ imu_ret # None) =>
        /\ imu_ret.columns = SpecColumns
        /\ \A i \in 1..Len(imu_ret.rows) :
              /\ imu_ret.rows[i]["Gyro X [dps]"] = imu_file.recs[i][1]
              /\ imu_ret.rows[i]["Gyro Y [dps]"] = imu_file.recs[i][2]
              /\ imu_ret.rows[i]["Gyro Z [dps]"] = imu_file.recs[i][3]
              /\ imu_ret.rows[i]["Acc X [mg]"] = imu_file.recs[i][4]
              /\ imu_ret.rows[i]["Acc Y [mg]"] = imu_file.recs[i][5]
              /\ imu_ret.rows[i]["Acc Z [mg]"] = imu_file.recs[i][6]

\* C8 as claimed: a file whose header sample_rate is 0 makes the decoder
\* return the error result.
C8_ZeroRateFails ==
    (imu_ret # Pending /\ imu_file.sample_rate = 0) => (imu_ret = None)

\* C8 as amended: a file whose header sample_rate is 0 is decoded at the
\* default rate of 50 Hz; with a readable header and at least one complete
\* record the decoder returns a table whose rows are 20 ms apart from the
\* header's start instant.
C8_ZeroRateDefaultsTo50 ==
    (imu_ret # Pending /\ imu_file.sample_rate = 0 /\ WellFormedImu(imu_file)) =>
        /\ imu_ret # None
        /\ Len(imu_ret.rows) = Len(imu_file.recs)
        /\ \A i \in 1..Len(imu_ret.rows) :
              imu_ret.rows[i]["Time"] = AddMs(ImuStartDt(imu_file), (i - 1) * 20)

\* C8 witness: a zero-rate file with two records has been decoded to a table.
C8_Witness ==
    /\ imu_ret # Pending
    /\ imu_ret # None
    /\ imu_file.sample_rate = 0
    /\ Len(imu_ret.rows) = 2

\* A file whose decoder finds no samples: zero IMU records, an empty audio
\* payload after the header, an empty GPS payload after the preamble.
NoSamples(step) ==
    \/ /\ step.fam = "imu"
       /\ step.input.exists /\ step.input.hdr = HEADER_SIZE
       /\ Len(step.input.recs) = 0
    \/ /\ step.fam = "aud"
       /\ step.input.exists /\ step.input.hdr = AUD_HEADER_SIZE
       /\ step.input.body = << >>
    \/ /\ step.fam = "gps"
       /\ step.input.exists /\ step.input.hdr_len = METADATA_HEADER_SIZE
       /\ U32LE(step.input.head4) = MAGIC_WORD
       /\ Len(step.input.words) = 0

FailedOf(st, fam) ==
    CASE fam = "imu" -> st.failed_imu
      [] fam = "aud" -> st.failed_aud
      [] fam = "gps" -> st.failed_gps

SuccessOf(st, fam) ==
    CASE fam = "imu" -> st.success_imu
      [] fam = "aud" -> st.success_aud
      [] fam = "gps" -> st.success_gps

\* C9: a file step on an input with no samples increments the family's
\* failed counter, appends an error entry for the file and leaves the
\* family's success counter as it was.
C9_NoSamplesIsFailure ==
    [][(visited' # visited /\ NoSamples(last')) =>
          /\ FailedOf(stats', last'.fam) = FailedOf(stats, last'.fam) + 1
          /\ Len(stats'.errors) = Len(stats.errors) + 1
          /\ Last(stats'.errors).file = last'.path
          /\ SuccessOf(stats', last'.fam) = SuccessOf(stats, last'.fam)]_vars

\* The scan of the drawn payload has ended.
AudScanned == aud_file # None /\ aud_ret # Pending

PayloadLen == Len(aud_file.body)
CleanLen == Len(aud_st.clean)
FootersFound == Len(aud_st.found)
EXCISION == FOOTER_LEN + MARGIN_LEFT + MARGIN_RIGHT

\* A found footer within MARGIN_LEFT bytes of the payload start, within
\* FOOTER_LEN + MARGIN_RIGHT bytes of the payload end.
AbutsStart(pos) == pos < MARGIN_LEFT
AbutsEnd(pos) == pos + FOOTER_LEN + MARGIN_RIGHT > PayloadLen

NoFooterAtBoundary ==
    \A i \in 1..FootersFound :
        ~AbutsStart(aud_st.found[i]) /\ ~AbutsEnd(aud_st.found[i])

EndsAbutted ==
    (IF \E i \in 1..FootersFound : AbutsStart(aud_st.found[i]) THEN 1 ELSE 0)
    + (IF \E i \in 1..FootersFound : AbutsEnd(aud_st.found[i]) THEN 1 ELSE 0)

\* Every found footer starts at least MARGIN_LEFT bytes after the right
\* margin of the footer before it.
FootersApart ==
    \A i \in 1..(FootersFound - 1) :
        aud_st.found[i + 1] >= aud_st.found[i] + EXCISION

\* Found footers that start less than 18 bytes after the one before them.
CloseFooters ==
    Cardinality({i \in 1..(FootersFound - 1) :
                    aud_st.found[i + 1] < aud_st.found[i] + EXCISION})

\* Bytes fewer than 18 excised for a footer at the payload start, and for a
\* footer at the payload end: whole, or cut short after its magic.
StartSlack ==
    IF \E i \in 1..FootersFound : AbutsStart(aud_st.found[i])
    THEN MARGIN_LEFT ELSE 0

EndSlack ==
    IF \E i \in 1..FootersFound : aud_st.found[i] + FOOTER_LEN > PayloadLen
    THEN FOOTER_LEN - Len(FOOTER_MAGIC) + MARGIN_RIGHT
    ELSE IF \E i \in 1..FootersFound : AbutsEnd(aud_st.found[i])
    THEN MARGIN_RIGHT ELSE 0

\* C10 as claimed: with k footers found and none at a payload boundary the
\* cleaned byte stream has len(payload) - 18k bytes; with a footer at a
\* boundary it differs from that by at most 4 bytes per abutted end.
C10_ExcisionLaw ==
    AudScanned =>
        /\ NoFooterAtBoundary =>
              (CleanLen = PayloadLen - FootersFound * EXCISION)
        /\ ~NoFooterAtBoundary =>
              /\ CleanLen >= PayloadLen - FootersFound * EXCISION
              /\ CleanLen - (PayloadLen - FootersFound * EXCISION)
                    <= EndsAbutted * (MARGIN_LEFT + MARGIN_RIGHT)

\* C10 as amended: with k footers found, none at a payload boundary and each
\* at least 18 bytes after the one before it, the cleaned byte stream has
\* len(payload) - 18k bytes; for every payload it has at least
\* len(payload) - 18k and at most len(payload) - 4k bytes, and exceeds
\* len(payload) - 18k by at most 2 for a footer at the payload start, 2 for
\* each footer close to the one before it, 2 for a whole footer and 12 for a
\* cut footer at the payload end.
C10_ExcisionLawFootersApart ==
    AudScanned =>
        /\ (NoFooterAtBoundary /\ FootersApart) =>
              (CleanLen = PayloadLen - FootersFound * EXCISION)
        /\ CleanLen >= PayloadLen - FootersFound * EXCISION
        /\ CleanLen <= PayloadLen - FootersFound * Len(FOOTER_MAGIC)
        /\ CleanLen - (PayloadLen - FootersFound * EXCISION)
              <= StartSlack + MARGIN_LEFT * CloseFooters + EndSlack

\* C10 witness: two footers found, both inside the payload and apart, and 36
\* bytes fewer in the cleaned stream, which is returned as samples.
C10_Witness ==
    /\ AudScanned
    /\ FootersFound = 2
    /\ NoFooterAtBoundary
    /\ FootersApart
    /\ CleanLen = PayloadLen - 36
    /\ CleanLen > 0
    /\ aud_ret.success
    /\ ALen(aud_ret.audio_data) * 2 = CleanLen

\* The scan taken step by step returns what parse_audio_file returns.
AudStepwiseAgrees == AudScanned => (aud_ret = parse_audio_file(aud_file))

\* C11: whenever parse_audio_file returns success the cleaned byte stream has
\* even length and the samples returned are half that many; an odd-length
\* cleaned stream never gives a success result.
C11_SampleParity ==
    AudScanned =>
        /\ aud_ret.success =>
              /\ CleanLen % 2 = 0
              /\ ALen(aud_ret.audio_data) * 2 = CleanLen
        /\ (CleanLen % 2 = 1) => ~aud_ret.success

\* C11 witness: a success result with a footer excised and samples returned.
C11_Witness ==
    /\ AudScanned
    /\ aud_ret.success
    /\ FootersFound >= 1
    /\ ALen(aud_ret.audio_data) >= 1

\* The 8 timestamp bytes of the i-th found footer, fewer if the payload ends.
FooterChunk(i) ==
    Slice(aud_file.body, aud_st.found[i] + 4, aud_st.found[i] + 12)

\* The validation the specification states: month byte in [0x01, 0x12], day
\* byte in [0x01, 0x31].
ValidFooterTs(ts_chunk) ==
    /\ ts_chunk[6] >= 1 /\ ts_chunk[6] <= 16 + 2
    /\ ts_chunk[7] >= 1 /\ ts_chunk[7] <= 3 * 16 + 1

\* C12: a footer contributes a drift timestamp only if its month byte is in
\* [0x01, 0x12] and its day byte in [0x01, 0x31]; a footer failing this
\* contributes none, its bytes are excised all the same.
C12_InvalidFooterTsSkipped ==
    AudScanned =>
        /\ Len(aud_st.timestamps)
              = Cardinality({i \in 1..FootersFound :
                                /\ Len(FooterChunk(i)) = 8
                                /\ ValidFooterTs(FooterChunk(i))})
        /\ CleanLen <= PayloadLen - FootersFound * Len(FOOTER_MAGIC)

\* A byte read as its two hexadecimal digits, and the timestamp the
\* specification records for a footer.
Hex2(b) == << b \div 16, b % 16 >>

HexTsStr(ts_chunk) ==
    [year |-> << 2, 0 >> \o Hex2(ts_chunk[8]),
     mon  |-> Hex2(ts_chunk[6]),
     day  |-> Hex2(ts_chunk[7]),
     hh   |-> Hex2(ts_chunk[1]),
     mm   |-> Hex2(ts_chunk[2]),
     ss   |-> Hex2(ts_chunk[3])]

\* C13: each recorded drift timestamp renders the footer's bytes as their
\* hexadecimal digits: 07 34 51 00 04 09 29 25 is 2025-09-29 07:34:51.
C13_FooterTsHexDigits ==
    AudScanned =>
        \A i \in 1..Len(aud_st.timestamps) :
            /\ aud_st.timestamps[i] = HexTsStr(FooterChunk(i))
            /\ (FooterChunk(i) = TsGood) =>
                  aud_st.timestamps[i]
                    = [year |-> << 2, 0, 2, 5 >>, mon |-> << 0, 9 >>,
                       day |-> << 2, 9 >>, hh |-> << 0, 7 >>,
                       mm |-> << 3, 4 >>, ss |-> << 5, 1 >>]

\* The file written by the GPS decoder run on its own, and the payload words.
GpsOut == gps_fs[GpsOutputPath(gps_file)]

\* 0xAABBCCDD becomes 0xCCDDAABB.
HalvesSwapped(w) == [hi |-> w.lo, lo |-> w.hi]

\* C14: the word written at index i is the payload word i with its 16-bit
\* halves exchanged, the output has as many words as the payload has
\* complete words, and exchanging twice gives the word back.
C14_WordSwap ==
    (gps_ret # Pending /\ gps_ret.success) =>
        /\ Len(GpsOut) = (GpsFileSize(gps_file) - METADATA_HEADER_SIZE) \div 4
        /\ Len(GpsOut) = Len(gps_file.words)
        /\ \A i \in 1..Len(GpsOut) :
              /\ GpsOut[i] = HalvesSwapped(U32LE(gps_file.words[i]))
              /\ WordSwap(GpsOut[i]) = U32LE(gps_file.words[i])
              /\ WordSwap(WordSwap(U32LE(gps_file.words[i])))
                    = U32LE(gps_file.words[i])

\* C14 witness: a file with 0xAABBCCDD and 0x80000001 and three trailing
\* bytes has been written as 0xCCDDAABB, 0x00018000.
C14_Witness ==
    /\ gps_ret # Pending
    /\ gps_ret.success
    /\ gps_file.tail = 3
    /\ gps_file.words = << << 221, 204, 187, 170 >>, << 1, 0, 0, 128 >> >>
    /\ GpsOut = << [hi |-> 52445, lo |-> 43707], [hi |-> 1, lo |-> 32768] >>

\* A step of the GPS file loop, of the audio file loop.
GpsStep == visited' # visited /\ last'.fam = "gps"
AudStep == visited' # visited /\ last'.fam = "aud"

\* C15: a GPS input whose output file already exists is an idempotent skip:
\* failed_gps is not incremented and no error entry is appended for it.
C15_ExistingOutputNotFailure ==
    [][(GpsStep /\ last'.input.exists
          /\ last'.input.hdr_len >= GPS_MIN_HEADER
          /\ U32LE(last'.input.head4) = MAGIC_WORD
          /\ FsExists(fs, GpsOutputPath(last'.input))) =>
          /\ stats'.failed_gps = stats.failed_gps
          /\ stats'.errors = stats.errors]_vars

\* C16: once the GPS decoder has been run on an input, a further run on the
\* same input with the same output root writes nothing (it returns True only
\* after writing) and leaves every file of the output tree as it was.
C16_SecondRunWritesNothing ==
    [][(gps_runs >= 1 /\ gps_runs' = gps_runs + 1) =>
          /\ gps_fs' = gps_fs
          /\ (GpsOutputPath(gps_file) \in DOMAIN gps_fs) => ~gps_ret'.success]_vars

\* C16 witness: the second run on a file the first run wrote has been
\* skipped and the file holds the words of the first run.
C16_Witness ==
    /\ gps_runs = 2
    /\ ~gps_ret.success
    /\ GpsOutputPath(gps_file) \in DOMAIN gps_fs
    /\ Len(gps_file.words) = 2
    /\ \A i \in 1..2 : GpsOut[i] = HalvesSwapped(U32LE(gps_file.words[i]))

\* C17: a GPS file whose first four bytes are not 0xA55AA55A read as a
\* little-endian u32 is rejected: no file of the output tree is created or
\* modified and the coordinator records the file as failed.
C17_BadMagicRejected ==
    [][(GpsStep /\ last'.input.exists
          /\ last'.input.hdr_len >= Len(last'.input.head4)
          /\ U32LE(last'.input.head4) # MAGIC_WORD) =>
          /\ last'.outcome = "failed"
          /\ fs' = fs
          /\ stats'.failed_gps = stats.failed_gps + 1
          /\ stats'.success_gps = stats.success_gps
          /\ Len(stats'.errors) = Len(stats.errors) + 1
          /\ Last(stats'.errors).file = last'.path]_vars

\* C17 witness: a GPS file with a whole preamble, a payload word and the
\* first bytes 5A A5 5A A4 has been recorded as failed.
C17_Witness ==
    /\ last.fam = "gps"
    /\ last.input.exists
    /\ last.input.hdr_len = METADATA_HEADER_SIZE
    /\ last.input.head4 = << 90, 165, 90, 164 >>
    /\ Len(last.input.words) = 1
    /\ last.outcome = "failed"
    /\ ErrorRecordedFor(last)
    /\ stats.failed_gps >= 1

\* The year, month and day an IMU header's BCD bytes decode to, with the
\* time of day.
BcdFields(f) ==
    [year |-> 2000 + _bcd_to_int(f.bcd.yr), month |-> _bcd_to_int(f.bcd.mon),
     day |-> _bcd_to_int(f.bcd.day), h |-> _bcd_to_int(f.bcd.h),
     m |-> _bcd_to_int(f.bcd.m), s |-> _bcd_to_int(f.bcd.s)]

\* The three ranges the specification validates.
BcdRangesOk(f) ==
    LET d == BcdFields(f)
    IN  /\ d.month >= 1 /\ d.month <= 12
        /\ d.day >= 1 /\ d.day <= 31
        /\ d.year >= 2000 /\ d.year <= 2099

\* C18: the start instant decoded from a header is the instant of the BCD
\* bytes when month is in [1,12], day in [1,31] and year in [2000,2099] (and
\* the bytes are an instant of the calendar), the file's last-modification
\* instant when one of the three ranges is violated; an invalid BCD date
\* never makes the decoder fail.
C18_StartInstant ==
    (imu_ret # Pending /\ WellFormedImu(imu_file)) =>
        LET d == BcdFields(imu_file)
        IN  /\ imu_ret # None
            /\ (BcdRangesOk(imu_file)
                  /\ DatetimeValid(d.year, d.month, d.day, d.h, d.m, d.s)) =>
                  (imu_ret.rows[1]["Time"]
                      = Datetime(d.year, d.month, d.day, d.h, d.m, d.s))
            /\ ~BcdRangesOk(imu_file) =>
                  (imu_ret.rows[1]["Time"] = imu_file.mtime)

\* The audio step decoded samples and no write of it raised.
AudStepWithSamples ==
    /\ AudStep
    /\ parse_audio_file(last'.input).success
    /\ ALen(parse_audio_file(last'.input).audio_data) > 0
    /\ last'.input.sample_rate > 0
    /\ ~last'.input.wav_fails
    /\ ~last'.input.txt_fails

\* C19: every audio input and every GPS input that decodes successfully gets
\* an output file of its own: its step adds a file to the output tree and
\* changes no file another input has produced.
C19_OneOutputPerInput ==
    [][((AudStepWithSamples /\ last'.outcome = "success")
          \/ (GpsStep /\ last'.outcome = "success")) =>
          /\ DOMAIN fs # DOMAIN fs'
          /\ \A q \in DOMAIN fs : q \in DOMAIN fs' /\ fs'[q] = fs[q]]_vars

\* C20: an audio file that decodes with at least one sample has its WAV
\* under aud/ and its sidecar under aud/metadata/, both named
\* {start}-{end}_{device_id} with end = start + num_samples / sample_rate,
\* and is counted once, as succeeded.
C20_WavAndSidecar ==
    [][AudStepWithSamples =>
          LET ret == parse_audio_file(last'.input)
              end == AddMs(ret.meta.Start_Time,
                           (ALen(ret.audio_data) * 1000) \div ret.meta.SampleRate)
              basename == StrfTime(ret.meta.Start_Time) \o StrfTime(end)
                              \o << ret.meta.DeviceID >>
          IN  /\ Path("aud", "wav", basename) \in DOMAIN fs'
              /\ Path("aud/metadata", "txt", basename) \in DOMAIN fs'
              /\ stats'.success_aud = stats.success_aud + 1
              /\ stats'.failed_aud = stats.failed_aud]_vars

\* C21: generate_metadata_file leaves an existing sidecar as it is: when the
\* target path of the call exists before it, the output tree after the call
\* maps every path to the contents it had, and holds no other path.
C21_ExistingSidecarUnchanged ==
    [][\A md \in {"imu/metadata", "aud/metadata"} :
          LET c    == fin'.last
              name == IF c.end_time # None
                      THEN StrfTime(c.meta.Start_Time) \o StrfTime(c.end_time)
                               \o << c.meta.DeviceID >>
                      ELSE StrfTime(c.meta.Start_Time) \o << c.meta.DeviceID >>
          IN  (/\ fin # None
               /\ fin'.calls = fin.calls + 1
               /\ (md = "imu/metadata") = (c.meta.Sensor = "IMU10")
               /\ (md = "aud/metadata") = (c.meta.Sensor = "SPH0641")
               /\ Path(md, "txt", name) \in DOMAIN fin.fs) =>
                  /\ DOMAIN fin'.fs = DOMAIN fin.fs
                  /\ \A q \in DOMAIN fin.fs : fin'.fs[q] = fin.fs[q]]_vars

\* C21 witness: a second call names the sidecar the first call wrote, with
\* block timestamps the first call did not have, and the sidecar still holds
\* the contents of the first call.
C21_Witness ==
    /\ fin # None
    /\ fin.calls = 2
    /\ fin.last.meta.Sensor = "SPH0641"
    /\ fin.last.end_time = None
    /\ fin.last.time_stamps = << FooterTsStr(TsGood) >>
    /\ fin.last.raised = "none"
    /\ LET q == Path("aud/metadata", "txt",
                     StrfTime(fin.last.meta.Start_Time)
                         \o << fin.last.meta.DeviceID >>)
       IN  /\ q \in DOMAIN fin.fs
           /\ fin.fs[q].blocks = << >>

\* C22: the basename of the WAV is a function of the header fields and the
\* sample count only: the decoder run on the same bytes with another
\* modification time of the file gives the same output name.
C22_NameIndependentOfMtime ==
    (aud_ret # Pending /\ aud_ret.success /\ ALen(aud_ret.audio_data) > 0) =>
        \A t \in {FileMtime, AddMs(FileMtime, 1000)} :
            LET other == parse_audio_file([aud_file EXCEPT !.mtime = t])
            IN  DOMAIN save_aud_wav(FsEmpty, other.audio_data, other.meta, FALSE).fs
                = DOMAIN save_aud_wav(FsEmpty, aud_ret.audio_data, aud_ret.meta,
                                      FALSE).fs

\* C22 as amended: the same, for the files whose BCD bytes are an instant of
\* the calendar.
C22_NameIndependentOfMtimeValidBcd ==
    LET d == aud_file.bcd
    IN  (/\ aud_ret # Pending /\ aud_ret.success
         /\ ALen(aud_ret.audio_data) > 0
         /\ DatetimeValid(2000 + bcd_to_int(d.yr), bcd_to_int(d.mon),
                          bcd_to_int(d.day), bcd_to_int(d.h), bcd_to_int(d.m),
                          bcd_to_int(d.s))) =>
            \A t \in {FileMtime, AddMs(FileMtime, 1000)} :
                LET other == parse_audio_file([aud_file EXCEPT !.mtime = t])
                IN  DOMAIN save_aud_wav(FsEmpty, other.audio_data, other.meta,
                                        FALSE).fs
                    = DOMAIN save_aud_wav(FsEmpty, aud_ret.audio_data,
                                          aud_ret.meta, FALSE).fs

\* C22 witness: a file with a valid BCD date and the later modification time
\* has been decoded to two samples, and its WAV is named by the BCD instant.
C22_Witness ==
    /\ aud_ret # Pending
    /\ aud_ret.success
    /\ ALen(aud_ret.audio_data) = 2
    /\ aud_file.bcd = BcdGood
    /\ aud_file.mtime = AddMs(FileMtime, 1000)
    /\ aud_ret.meta.Start_Time = Datetime(2025, 9, 29, 7, 34, 51)

\* C23: nothing built in one session is carried into the next: the step that
\* begins a session leaves the merged IMU table empty and the session device
\* id and header unset, and the merged table never holds more rows than the
\* session's own files were decoded to.
C23_SessionStartsClean ==
    [][/\ (pc = "session" /\ pc' \in {"imu", "aud_begin"}) =>
             /\ imu_df' = << >>
             /\ session_device_id' = NoDevice
             /\ last_meta' = None
       /\ Len(imu_df') <= decoded_rows']_vars

\* C23 witness: the second session has begun after a first session in which
\* an IMU file and an audio file were processed.
C23_Witness ==
    /\ sidx = 2
    /\ pc \in {"imu", "aud_begin"}
    /\ fidx = 1
    /\ \E p \in visited : p.session = 1 /\ p.fam = "imu"
    /\ \E p \in visited : p.session = 1 /\ p.fam = "aud"
    /\ imu_df = << >>
    /\ last_meta = None

\* C24: decoders only read their input: in no state of a run has a file been
\* created or modified under the input tree.
C24_InputTreeUntouched == input_txt = {}

\* Lexical order of basenames made of the letters a and b.
RECURSIVE LexLess(_, _)
LexLess(x, y) ==
    IF y = << >> THEN FALSE
    ELSE IF x = << >> THEN TRUE
    ELSE IF x[1] # y[1] THEN x[1] = "a"
    ELSE LexLess(Tail(x), Tail(y))

\* C25: the sorted IMU list holds the files of the crawled list, those with a
\* digit in their basename in ascending order of the first integer token,
\* those without a digit in lexical order of their basenames.
C25_SortedByNumberThenLexical ==
    (srt # None /\ srt.done) =>
        LET out      == srt.sorted
            HasDigit(p) == \E k \in DOMAIN p.base : p.base[k] \in DigitChars
        IN  /\ Len(out) = Len(srt.files)
            /\ {out[k] : k \in DOMAIN out} = {srt.files[k] : k \in DOMAIN srt.files}
            /\ \A a, b \in DOMAIN out :
                  (a < b /\ HasDigit(out[a]) /\ HasDigit(out[b])) =>
                      extract_file_number(out[a]) <= extract_file_number(out[b])
            /\ \A a, b \in DOMAIN out :
                  (a < b /\ ~HasDigit(out[a]) /\ ~HasDigit(out[b])) =>
                      LexLess(out[a].base, out[b].base)

\* C26: the audio payload is the file's bytes from offset 150, the header
\* width of the IMU decoder: for a file without footer the bytes converted to
\* PCM are the bytes of the file from offset HEADER_SIZE to the end of file.
C26_AudioPayloadFrom150 ==
    (AudScanned /\ FootersFound = 0) =>
        aud_st.clean = Slice(aud_file.body, HEADER_SIZE - AUD_HEADER_SIZE,
                             Len(aud_file.body))

\* C27: at the end of a run every discovered file has been counted in exactly
\* one of the succeeded and failed counters of its family, and total is the
\* sum of the three family totals.
C27_CountersAddUp ==
    (pc = "done") =>
        /\ stats.success_imu + stats.failed_imu = stats.total_imu
        /\ stats.success_aud + stats.failed_aud = stats.total_aud
        /\ stats.success_gps + stats.failed_gps = stats.total_gps
        /\ stats.total = stats.total_imu + stats.total_aud + stats.total_gps
        /\ stats.total = TotalFiles(all_sessions)

\* C28: in every state of the coordinator stats['errors'] has as many entries
\* as failed_imu + failed_aud + failed_gps, and every step that appends an
\* entry increments one failed counter by one and names the file of the step.
C28_ErrorsMatchFailed ==
    /\ [](Len(stats.errors)
             = stats.failed_imu + stats.failed_aud + stats.failed_gps)
    /\ [][(stats'.failed_imu + stats'.failed_aud + stats'.failed_gps
             # stats.failed_imu + stats.failed_aud + stats.failed_gps
            \/ stats'.errors # stats.errors) =>
              /\ stats'.failed_imu + stats'.failed_aud + stats'.failed_gps
                   = stats.failed_imu + stats.failed_aud + stats.failed_gps + 1
              /\ FailedOf(stats', last'.fam) = FailedOf(stats, last'.fam) + 1
              /\ Front(stats'.errors) = stats.errors
              /\ Last(stats'.errors).file = last'.path]_vars

\* C28 witness: an audio file and a GPS file have failed and the error list
\* holds one entry for each.
C28_Witness ==
    /\ stats.failed_aud = 1
    /\ stats.failed_gps = 1
    /\ Len(stats.errors) = 2
    /\ stats.errors[1].file.fam = "aud"
    /\ stats.errors[2].file.fam = "gps"

\* C29: the footer scan ends on every payload.  An iteration that finds a
\* footer at f >= cursor sets the cursor to f + 16, at least 16 beyond where
\* it was; the loop makes at most len(payload) / 16 + 1 iterations; and the
\* slices appended to the output are taken from the payload in source order
\* and do not overlap.
C29_ScanTerminates ==
    /\ <>(aud_ret # Pending)
    /\ [](Len(aud_st.ranges) <= Len(aud_file.body) \div 16 + 1)
    /\ [][aud_st' # aud_st =>
            LET r == Last(aud_st'.ranges)
            IN  /\ Len(aud_st'.ranges) = Len(aud_st.ranges) + 1
                /\ Len(aud_st'.found) > Len(aud_st.found) =>
                      /\ Last(aud_st'.found) >= aud_st.cursor
                      /\ aud_st'.cursor = Last(aud_st'.found) + 16
                      /\ aud_st'.cursor >= aud_st.cursor + 16
                /\ aud_st.cursor <= r[1] /\ r[1] <= r[2]
                /\ r[2] <= Len(aud_file.body)
                /\ aud_st.ranges # << >> => Last(aud_st.ranges)[2] <= r[1]
                /\ r[2] <= aud_st'.cursor \/ aud_st'.done
                /\ aud_st'.clean = aud_st.clean \o Slice(aud_file.body, r[1], r[2])
          ]_vars

\* C29 witness: the scan of a payload with two footers has ended after three
\* iterations, the last one appending the bytes after the second footer.
C29_Witness ==
    /\ aud_ret # Pending
    /\ Len(aud_st.found) = 2
    /\ Len(aud_st.ranges) = 3
    /\ aud_st.done
    /\ Last(aud_st.ranges)[1] < Last(aud_st.ranges)[2]

\* C30: no byte of a footer (an occurrence of FOOTER_MAGIC and the 10 bytes
\* after it, as far as the payload reaches) is in the cleaned output, and
\* every occurrence gives one timestamp entry, whatever the distance between
\* two footers and also for a footer cut short by the end of the file.
C30_NoFooterByteInOutput ==
    AudScanned =>
        LET raw == aud_file.body
            occ == {p \in 0..Len(raw) : MatchAt(raw, FOOTER_MAGIC, p)}
        IN  /\ Len(aud_st.timestamps) = Cardinality(occ)
            /\ \A k \in DOMAIN aud_st.ranges : \A p \in occ :
                  \/ aud_st.ranges[k][1] >= aud_st.ranges[k][2]
                  \/ aud_st.ranges[k][2] <= p
                  \/ aud_st.ranges[k][1] >= p + FOOTER_LEN

\* C30 as amended: the same for the payloads in which every occurrence of
\* the magic has its 8 timestamp bytes and starts at least FOOTER_LEN +
\* MARGIN_RIGHT bytes after the occurrence before it.
C30_NoFooterByteInOutputApart ==
    AudScanned =>
        LET raw == aud_file.body
            occ == {p \in 0..Len(raw) : MatchAt(raw, FOOTER_MAGIC, p)}
        IN  (/\ \A p \in occ : p + Len(FOOTER_MAGIC) + 8 <= Len(raw)
             /\ \A p, q \in occ :
                   p < q => q >= p + FOOTER_LEN + MARGIN_RIGHT) =>
                /\ Len(aud_st.timestamps) = Cardinality(occ)
                /\ \A k \in DOMAIN aud_st.ranges : \A p \in occ :
                      \/ aud_st.ranges[k][1] >= aud_st.ranges[k][2]
                      \/ aud_st.ranges[k][2] <= p
                      \/ aud_st.ranges[k][1] >= p + FOOTER_LEN

\* C30 witness: two whole footers with two sample bytes between them, fewer
\* than MARGIN_LEFT + MARGIN_RIGHT, have been found and given a timestamp
\* each, and sample bytes before, between and after them were scanned.
C30_Witness ==
    /\ AudScanned
    /\ Len(aud_st.found) = 2
    /\ aud_st.found[1] > MARGIN_LEFT
    /\ aud_st.found[2] = aud_st.found[1] + FOOTER_LEN + MARGIN_RIGHT
    /\ Len(aud_st.timestamps) = 2
    /\ Len(aud_file.body) > aud_st.found[2] + FOOTER_LEN + MARGIN_RIGHT
    /\ aud_st.clean # << >>

====
